---------------------------- MODULE Spec2Model ----------------------------
(***************************************************************************)
(* Authentication, session and settings-persistence core of server.py      *)
(* (apple-mediakey-control).                                               *)
(*                                                                         *)
(* The server is a ThreadingMixIn HTTP server: every request runs in its   *)
(* own thread and the globals _password and _sessions and the settings     *)
(* file are shared without a lock.  A handler is therefore modelled as a   *)
(* sequence of steps, one per access to shared state (a read or write of   *)
(* _password, of _sessions, of the settings file).  Thread-local work      *)
(* (parsing, validation of form fields, building the response) is folded   *)
(* into the step of the shared access that precedes or follows it.         *)
(* Inputs of a request that nothing reads before a given step (form        *)
(* fields, the path inside a class of routes) are drawn at that step.      *)
(***************************************************************************)
EXTENDS Integers, Sequences, FiniteSets, TLC

(* ------------------------------ bounds -------------------------------- *)

MaxInFlight == 2      \* request handlers that may run at the same time
MaxReqs == 2          \* requests and command-line runs over one run of the model
MaxTokens == 3        \* tokens token_hex hands out over one run
MaxTicks == 1         \* clock advances over one run
MaxBoots == 1         \* process restarts (clean or after a crash)
MaxFails == 1         \* writes of the settings file that fail

(* --------------------------- program constants ------------------------ *)

SESSION_TTL == 30 * 24 * 3600
MinPwLen == 4

(* Passwords a client (or the command line) may submit.                   *)
Passwords == {"", "ab", "abcd", "wxyz"}

(* base64.b64encode(pw.encode()).decode() on the passwords above.         *)
B64Enc(p) ==
  CASE p = ""     -> ""
    [] p = "ab"   -> "YWI="
    [] p = "abcd" -> "YWJjZA=="
    [] p = "wxyz" -> "d3h5eg=="

(* base64.b64decode(b64.encode()).decode(); the except branch of          *)
(* _setup_auth turns a failure into the empty password.                   *)
B64Dec(e) ==
  IF \E p \in Passwords : B64Enc(p) = e
  THEN CHOOSE p \in Passwords : B64Enc(p) = e
  ELSE ""

Slots == 1 .. MaxInFlight
NoToken == 0          \* no cookie, or a cookie value that was never minted
None == 0             \* dict.get miss; "if not exp" treats None and 0 alike

(* Amounts by which the wall clock advances between two observations.     *)
TickSteps == {1, SESSION_TTL}

(* ------------------------------ dictionaries -------------------------- *)

EmptyMap == [k \in {} |-> 0]

Get(m, k, default) == IF k \in DOMAIN m THEN m[k] ELSE default

Put(m, k, v) == [x \in (DOMAIN m) \cup {k} |-> IF x = k THEN v ELSE m[x]]

Pop(m, k) == [x \in (DOMAIN m) \ {k} |-> m[x]]

(* {k: v for k, v in m.items() if v > now}                                *)
LiveAt(m, t) == [x \in {k \in DOMAIN m : m[k] > t} |-> m[x]]

(* ------------------------------ settings file ------------------------- *)
(* The file is missing, holds bytes plistlib cannot parse (this includes  *)
(* the empty file left by open(..., "wb") before the dump is flushed), or *)
(* holds a plist dictionary.                                              *)

Blob(b64, sess) == [password_b64 |-> b64, sessions |-> sess]

FileMissing == [st |-> "missing", data |-> EmptyMap]
FileCorrupt == [st |-> "corrupt", data |-> EmptyMap]
FileOk(d) == [st |-> "ok", data |-> d]

(* _load_settings: any failure yields {}.                                 *)
_load_settings(d) == IF d.st = "ok" THEN d.data ELSE EmptyMap

(* A loader without the try block: every failure is raised.               *)
LoadRaisesOnFailure(d) == d.st # "ok"

(* _load_settings lets no exception out: the try block covers the open   *)
(* and the parse, and "except Exception: pass" swallows what they raise.  *)
LoadRaises(d) == FALSE

(* _load_sessions_from_disk                                               *)
_load_sessions_from_disk(d, t) ==
  LiveAt(Get(_load_settings(d), "sessions", EmptyMap), t)

(* The password _setup_auth leaves in _password.                          *)
LoadedPassword(d) ==
  LET b64 == Get(_load_settings(d), "password_b64", "")
  IN  IF b64 # "" THEN B64Dec(b64) ELSE ""

(* The dictionary _save_password writes: the loaded one with the encoded  *)
(* password replaced.                                                     *)
PasswordBlob(d, pw) == Put(_load_settings(d), "password_b64", B64Enc(pw))

(* The dictionary _save_sessions_to_disk writes.                          *)
SessionsBlob(s, mem, t) == Put(s, "sessions", LiveAt(mem, t))

(* ------------------------------ state --------------------------------- *)

VARIABLES
  password,   \* _password
  sessions,   \* _sessions: token -> expiry
  disk,       \* settings.plist
  now,        \* time.time()
  minted,     \* tokens 1..minted have been returned by token_hex
  pc,         \* per slot: position of the handler running there
  loc,        \* per slot: the handler's local variables
  out,        \* the response sent by the step just taken (NoResp if none)
  reqs, ticks, boots,   \* counters for the bounds
  revoked,    \* tokens this process removed by logout or by another session's password change
  purged,     \* tokens this process removed by a password change that has completed
  reaped,     \* tokens _valid_session found expired and removed since the last save
  issued,     \* tokens some client holds: sent in a Set-Cookie header, now or by an earlier run
  fails,      \* counter for the bound on failing writes
  checked,    \* per token a login of this process created: the password the login was checked against
  acting,     \* action threads started by /action that have not finished
  origin,     \* tokens this process loaded at startup or got from token_hex
  cookieEnd,  \* per issued token: when the cookie that carried it reaches its Max-Age
  boot        \* how the running process was started and what it read

vars == <<password, sessions, disk, now, minted, pc, loc, out,
          reqs, ticks, boots, revoked, purged, reaped, boot, issued, fails, checked, acting, cookieEnd, origin>>

NoLoc == [kind |-> "none", tok |-> NoToken, exp |-> None, t |-> 0,
          pw |-> "", s |-> EmptyMap, found |-> FALSE, authed |-> FALSE,
          victims |-> {}, old |-> ""]

NoResp == [kind |-> "none", path |-> "", tok |-> NoToken, code |-> 0,
           to |-> "", err |-> "", cookie |-> NoToken, clear |-> FALSE,
           authed |-> FALSE, effect |-> "none",
           pw |-> "", pw2 |-> "", cur |-> "", name |-> ""]

Idle(i) == pc[i] = "idle"
AllIdle == \A i \in Slots : Idle(i)

(* Files a process can find when it starts: none (first run), one cut     *)
(* short by a crash, one written by an earlier run, or one whose          *)
(* password_b64 b64decode cannot decode while its sessions map is intact. *)
InitFiles ==
  { FileMissing,
    FileCorrupt,
    FileOk(Blob(B64Enc("abcd"), EmptyMap)),
    FileOk(Blob(B64Enc("abcd"),
                [k \in {1, 2} |-> IF k = 1 THEN 1 ELSE SESSION_TTL])),
    FileOk(Blob("abc", [k \in {1} |-> SESSION_TTL])) }

(* _setup_auth                                                            *)
SetupPassword(d) == LoadedPassword(d)
SetupSessions(d, t) == _load_sessions_from_disk(d, t)

Init ==
  /\ disk \in InitFiles
  /\ now = 0
  /\ password = SetupPassword(disk)
  /\ sessions = SetupSessions(disk, now)
  /\ minted = Cardinality(DOMAIN Get(_load_settings(disk), "sessions", EmptyMap))
  /\ pc = [i \in Slots |-> "idle"]
  /\ loc = [i \in Slots |-> NoLoc]
  /\ out = NoResp
  /\ reqs = 0 /\ ticks = 0 /\ boots = 0
  /\ revoked = {}
  /\ purged = {}
  /\ reaped = {}
  /\ issued = DOMAIN Get(_load_settings(disk), "sessions", EmptyMap)
  /\ fails = 0
  /\ checked = EmptyMap
  /\ acting = 0
  /\ origin = DOMAIN sessions
  /\ cookieEnd = Get(_load_settings(disk), "sessions", EmptyMap)
  /\ boot = [cause |-> "start", file |-> disk.st, inSave |-> FALSE,
             up |-> ~LoadRaises(disk), pw |-> password, chg |-> {},
             before |-> {}, after |-> {}]

(* ------------------------------ the clock ----------------------------- *)

(* Positions whose next step reads time.time().                           *)
ClockPcs == {"vs_check", "vs_time", "ns_put", "sv_snap"}

(* The clock advances.  An advance commutes with every step that does not *)
(* read the clock, so it is taken only where the next step of some        *)
(* handler reads it, or where no handler runs.                            *)
Tick ==
  /\ ticks < MaxTicks
  /\ AllIdle \/ \E i \in Slots : pc[i] \in ClockPcs
  /\ \E d \in TickSteps : now' = now + d
  /\ ticks' = ticks + 1
  /\ out' = NoResp
  /\ UNCHANGED <<password, sessions, disk, minted, pc, loc, reqs,
                 boots, revoked, purged, reaped, boot, issued, fails, checked, acting, cookieEnd, origin>>

(* ------------------------------ responses ----------------------------- *)

Response(kind, path, tok, code, to) ==
  [NoResp EXCEPT !.kind = kind, !.path = path, !.tok = tok, !.code = code,
                 !.to = to]

(* The handler in slot i returns with response r.                         *)
Finish(i, r) ==
  /\ pc' = [pc EXCEPT ![i] = "idle"]
  /\ loc' = [loc EXCEPT ![i] = NoLoc]
  /\ out' = r

(* The handler in slot i moves on to position p with locals l.            *)
Goto(i, p, l) ==
  /\ pc' = [pc EXCEPT ![i] = p]
  /\ loc' = [loc EXCEPT ![i] = l]
  /\ out' = NoResp

(* A server that calls fn() in the one thread that serves the requests.   *)
StalledWhileActing(n) == n > 0

(* Whether n running actions hold up the request handlers.  They do not:  *)
(* "threading.Thread(target=fn, daemon=True).start()" runs fn in a thread *)
(* of its own, and ThreadingMixIn gives every request its own thread.     *)
Stalled(n) == FALSE

(* The handler in slot i is at position p and its thread can run.         *)
At(i, p) == pc[i] = p /\ ~Stalled(acting)

(* A request arrives and is given a handler thread.  Slots are filled     *)
(* lowest first: a slot is only a place for a running handler.            *)
Accept(i) ==
  /\ boot.up
  /\ ~Stalled(acting)
  /\ Idle(i)
  /\ \A j \in Slots : j < i => ~Idle(j)
  /\ reqs < MaxReqs
  /\ reqs' = reqs + 1

(* Cookie values a client can send: none (or a value that names no        *)
(* session), or a token some response has handed out.  token_hex(32) is   *)
(* 256 random bits: no client sends a token before a response carried it. *)
Cookies == {NoToken} \cup issued

PublicPaths == {"/favicon.ico"}
GatedGetPaths == {"/", "/change-password", "/status", "/nosuch"}
GetPaths == PublicPaths \cup {"/setup", "/login", "/logout"} \cup GatedGetPaths
GatedPostPaths == {"/change-password", "/action", "/nosuch"}

(* ------------------------------ _valid_session ------------------------ *)

(* A gate that forgets the "if not exp" test.                             *)
AbsentNever(exp) == FALSE

(* "if not exp"                                                           *)
Absent(exp) == exp = None

(* "if time.time() > exp"                                                 *)
Expired(exp, t) == t > exp

(* A slide that leaves the clock out.                                     *)
SlideNoClock(t) == SESSION_TTL

(* "time.time() + SESSION_TTL"                                            *)
Slide(t) == t + SESSION_TTL

(* What a call of _valid_session(tok) that ran alone in the current state *)
(* would return.                                                          *)
Validate(tok) ==
  LET exp == Get(sessions, tok, None)
  IN  ~Absent(exp) /\ ~Expired(exp, now)

(* The response of the auth gate to a request that is not authenticated:  *)
(* a redirect to the login view on GET, a JSON 401 on POST.               *)
Unauthorized(i) ==
  IF loc[i].kind = "get"
  THEN \E path \in GatedGetPaths :
         Finish(i, Response("get", path, loc[i].tok, 302, "/login"))
  ELSE \E path \in GatedPostPaths :
         Finish(i, Response("post", path, loc[i].tok, 401, ""))

(* exp = _sessions.get(token); if not exp: return False                   *)
vs_get(i) ==
  /\ At(i, "vs_get")
  /\ LET exp == Get(sessions, loc[i].tok, None)
     IN  IF Absent(exp)
         THEN Unauthorized(i)
         ELSE Goto(i, "vs_check",
                   [loc[i] EXCEPT !.exp = exp,
                                  !.found = loc[i].tok \in DOMAIN sessions])
  /\ UNCHANGED <<password, sessions, disk, now, minted, reqs, ticks, boots,
                 revoked, purged, reaped, boot, issued, fails, checked, acting, cookieEnd, origin>>

(* if time.time() > exp: _sessions.pop(token, None); return False         *)
vs_check(i) ==
  /\ At(i, "vs_check")
  /\ IF Expired(loc[i].exp, now)
     THEN /\ sessions' = Pop(sessions, loc[i].tok)
          /\ reaped' = reaped \cup {loc[i].tok}
          /\ Unauthorized(i)
     ELSE /\ Goto(i, "vs_time",
                  [loc[i] EXCEPT !.authed = loc[i].found /\ ~(now > loc[i].exp)])
          /\ UNCHANGED <<sessions, reaped>>
  /\ UNCHANGED <<password, disk, now, minted, reqs, ticks, boots,
                 revoked, purged, boot, issued, fails, checked, acting, cookieEnd, origin>>

(* the time.time() of "_sessions[token] = time.time() + SESSION_TTL"      *)
vs_time(i) ==
  /\ At(i, "vs_time")
  /\ Goto(i, "vs_store", [loc[i] EXCEPT !.t = now])
  /\ UNCHANGED <<password, sessions, disk, now, minted, reqs, ticks, boots,
                 revoked, purged, reaped, boot, issued, fails, checked, acting, cookieEnd, origin>>

(* the store of "_sessions[token] = ..."; return True.  On GET the        *)
(* authenticated route is served at once (no further shared access).      *)
vs_store(i) ==
  /\ At(i, "vs_store")
  /\ sessions' = Put(sessions, loc[i].tok, Slide(loc[i].t))
  /\ IF loc[i].kind = "get"
     THEN \E path \in GatedGetPaths :
            Finish(i, [Response("get", path, loc[i].tok,
                                IF path = "/nosuch" THEN 404 ELSE 200, "")
                         EXCEPT !.authed = loc[i].authed,
                                !.effect = IF path = "/nosuch" THEN "none" ELSE "page"])
     ELSE Goto(i, "gated", [loc[i] EXCEPT !.exp = None, !.t = 0, !.found = FALSE])
  /\ UNCHANGED <<password, disk, now, minted, reqs, ticks, boots,
                 revoked, purged, reaped, boot, issued, fails, checked, acting, cookieEnd, origin>>

(* ------------------------------ do_GET -------------------------------- *)

(* A router without the first-run branch.                                 *)
UnconfiguredNever(pw) == FALSE

(* "if not _password": no credential has been configured.                 *)
Unconfigured(pw) == pw = ""

do_GET(i) ==
  /\ Accept(i)
  /\ \E path \in GetPaths, tok \in Cookies :
       IF path \in PublicPaths
       THEN Finish(i, Response("get", path, tok, 200, ""))
       ELSE IF Unconfigured(password)
       THEN IF path # "/setup"
            THEN Finish(i, Response("get", path, tok, 302, "/setup"))
            ELSE Finish(i, Response("get", path, tok, 200, ""))
       ELSE IF path = "/login"
       THEN Finish(i, Response("get", path, tok, 200, ""))
       ELSE IF path = "/logout"
       THEN Goto(i, "lo_pop", [NoLoc EXCEPT !.kind = "logout", !.tok = tok])
       ELSE Goto(i, "vs_get", [NoLoc EXCEPT !.kind = "get", !.tok = tok])
  /\ UNCHANGED <<password, sessions, disk, now, minted, ticks, boots,
                 revoked, purged, reaped, boot, issued, fails, checked, acting, cookieEnd, origin>>

(* _sessions.pop(token, None) of /logout                                  *)
lo_pop(i) ==
  /\ At(i, "lo_pop")
  /\ sessions' = Pop(sessions, loc[i].tok)
  /\ revoked' = revoked \cup ({loc[i].tok} \cap DOMAIN sessions)
  /\ Goto(i, "sv_load", loc[i])
  /\ UNCHANGED <<password, disk, now, minted, reqs, ticks, boots, purged, reaped, boot, issued, fails, checked, acting, cookieEnd, origin>>

(* ------------------------------ saving -------------------------------- *)
(* _save_settings opens the file with mode "wb", which truncates it, and  *)
(* the dump reaches the file when it is flushed or closed: between the    *)
(* two the file holds no parsable plist.                                  *)

(* s = _load_settings() of _save_sessions_to_disk                         *)
sv_load(i) ==
  /\ At(i, "sv_load")
  /\ Goto(i, "sv_snap", [loc[i] EXCEPT !.s = _load_settings(disk)])
  /\ UNCHANGED <<password, sessions, disk, now, minted, reqs, ticks, boots,
                 revoked, purged, reaped, boot, issued, fails, checked, acting, cookieEnd, origin>>

(* now = time.time(); s["sessions"] = {... if v > now}                    *)
sv_snap(i) ==
  /\ At(i, "sv_snap")
  /\ Goto(i, "sv_open", [loc[i] EXCEPT !.s = SessionsBlob(loc[i].s, sessions, now)])
  /\ reaped' = {}
  /\ UNCHANGED <<password, sessions, disk, now, minted, reqs, ticks, boots,
                 revoked, purged, boot, issued, fails, checked, acting, cookieEnd, origin>>

(* open(SETTINGS_FILE, "wb")                                              *)
sv_open(i) ==
  /\ At(i, "sv_open")
  /\ disk' = FileCorrupt
  /\ Goto(i, "sv_write", loc[i])
  /\ UNCHANGED <<password, sessions, now, minted, reqs, ticks, boots,
                 revoked, purged, reaped, boot, issued, fails, checked, acting, cookieEnd, origin>>

(* What the client gets when _save_settings raises (mkdir or open fails,  *)
(* the file is left as it was).  _do_post runs under the try of do_POST,  *)
(* which answers 500 with an empty body; do_GET has no try, so on /logout *)
(* the exception leaves the handler and the connection is closed without  *)
(* a response.                                                            *)
Raised(l) ==
  IF l.kind = "logout"
  THEN [Response("logout", "/logout", l.tok, 0, "") EXCEPT !.err = "dropped"]
  ELSE [Response(l.kind,
                 CASE l.kind = "setup" -> "/setup"
                   [] l.kind = "login" -> "/login"
                   [] OTHER -> "/change-password",
                 l.tok, 500, "") EXCEPT !.err = "exception", !.authed = l.authed]

(* open(SETTINGS_FILE, "wb") of the session save raises                   *)
sv_fail(i) ==
  /\ At(i, "sv_open")
  /\ fails < MaxFails
  /\ fails' = fails + 1
  /\ Finish(i, Raised(loc[i]))
  /\ UNCHANGED <<password, sessions, disk, now, minted, reqs, ticks, boots,
                 revoked, purged, reaped, boot, issued, checked, acting, cookieEnd, origin>>

(* open(SETTINGS_FILE, "wb") of the credential save raises                *)
sp_fail(i) ==
  /\ At(i, "sp_open")
  /\ fails < MaxFails
  /\ fails' = fails + 1
  /\ Finish(i, Raised(loc[i]))
  /\ UNCHANGED <<password, sessions, disk, now, minted, reqs, ticks, boots,
                 revoked, purged, reaped, boot, issued, checked, acting, cookieEnd, origin>>

(* The Max-Age of the cookie _cookie_set builds for a new token: the      *)
(* default of its max_age parameter.                                      *)
_cookie_set == SESSION_TTL

(* The response once the sessions are saved: the last statement of the    *)
(* setup, login, logout and change-password branches.                     *)
SavedResponse(l) ==
  CASE l.kind = "setup"  -> [Response("setup", "/setup", NoToken, 302, "/")
                               EXCEPT !.cookie = l.tok]
    [] l.kind = "login"  -> [Response("login", "/login", NoToken, 302, "/")
                               EXCEPT !.cookie = l.tok]
    [] l.kind = "logout" -> [Response("logout", "/logout", l.tok, 302, "/login")
                               EXCEPT !.clear = TRUE]
    [] l.kind = "post"   -> [Response("post", "/change-password", l.tok, 302,
                                      "/change-password?success=1")
                               EXCEPT !.authed = l.authed, !.effect = "password"]

(* plistlib.dump and close of _save_sessions_to_disk, then the response   *)
sv_write(i) ==
  /\ At(i, "sv_write")
  /\ disk' = FileOk(loc[i].s)
  /\ purged' = purged \cup loc[i].victims
  /\ Finish(i, SavedResponse(loc[i]))
  /\ issued' = issued \cup ({SavedResponse(loc[i]).cookie} \ {NoToken})
  /\ cookieEnd' = IF SavedResponse(loc[i]).cookie # NoToken
                  THEN Put(cookieEnd, loc[i].tok, now + _cookie_set)
                  ELSE cookieEnd
  /\ UNCHANGED <<password, sessions, now, minted, reqs, ticks, boots,
                 revoked, reaped, boot, fails, checked, acting, origin>>

(* "_password = pw" of _save_password                                     *)
sp_set(i) ==
  /\ At(i, "sp_set")
  /\ password' = loc[i].pw
  /\ Goto(i, "sp_load", loc[i])
  /\ UNCHANGED <<sessions, disk, now, minted, reqs, ticks, boots,
                 revoked, purged, reaped, boot, issued, fails, checked, acting, cookieEnd, origin>>

(* s = _load_settings(); s["password_b64"] = ...                          *)
sp_load(i) ==
  /\ At(i, "sp_load")
  /\ Goto(i, "sp_open", [loc[i] EXCEPT !.s = PasswordBlob(disk, loc[i].pw)])
  /\ UNCHANGED <<password, sessions, disk, now, minted, reqs, ticks, boots,
                 revoked, purged, reaped, boot, issued, fails, checked, acting, cookieEnd, origin>>

sp_open(i) ==
  /\ At(i, "sp_open")
  /\ disk' = FileCorrupt
  /\ Goto(i, "sp_write", loc[i])
  /\ UNCHANGED <<password, sessions, now, minted, reqs, ticks, boots,
                 revoked, purged, reaped, boot, issued, fails, checked, acting, cookieEnd, origin>>

(* After _save_password: setup goes on to _new_session, change-password   *)
(* to _save_sessions_to_disk.                                             *)
sp_write(i) ==
  /\ At(i, "sp_write")
  /\ disk' = FileOk(loc[i].s)
  /\ Goto(i, IF loc[i].kind = "setup" THEN "ns_put" ELSE "sv_load",
          [loc[i] EXCEPT !.s = EmptyMap, !.pw = ""])
  /\ UNCHANGED <<password, sessions, now, minted, reqs, ticks, boots,
                 revoked, purged, reaped, boot, issued, fails, checked, acting, cookieEnd, origin>>

(* ------------------------------ _new_session -------------------------- *)
(* token_hex(32) returns a token no earlier call returned.  The token is  *)
(* known to no other thread before the store, so the clock read and the   *)
(* store are one step.                                                    *)

(* A generator that repeats itself.                                       *)
token_repeat(n) == 1

(* The token of the call after n earlier calls.                           *)
token_hex(n) == n + 1

ns_put(i) ==
  /\ At(i, "ns_put")
  /\ minted < MaxTokens
  /\ minted' = minted + 1
  /\ sessions' = Put(sessions, token_hex(minted), now + SESSION_TTL)
  /\ Goto(i, "sv_load", [loc[i] EXCEPT !.tok = token_hex(minted), !.pw = ""])
  /\ checked' = IF loc[i].kind = "login"
                THEN Put(checked, token_hex(minted), loc[i].pw)
                ELSE checked
  /\ origin' = origin \cup {token_hex(minted)}
  /\ UNCHANGED <<password, disk, now, reqs, ticks, boots, revoked, purged, reaped,
                 boot, issued, fails, acting, cookieEnd>>

(* ------------------------------ do_POST ------------------------------- *)

(* Setup checks without the length test.                                  *)
SetupErrorNoLen(pw, pw2) ==
  IF pw = "" THEN "empty"
  ELSE IF pw # pw2 THEN "mismatch"
  ELSE "ok"

(* The checks of the /setup branch, in the order of the code.             *)
SetupError(pw, pw2) ==
  IF pw = "" THEN "empty"
  ELSE IF pw # pw2 THEN "mismatch"
  ELSE IF Len(pw) < MinPwLen THEN "short"
  ELSE "ok"

(* Change checks without the tests on the new password.                   *)
ChangeErrorNoNewTests(cur, pw, pw2, stored) ==
  IF cur # stored THEN "wrong"
  ELSE IF pw # pw2 THEN "mismatch"
  ELSE "ok"

(* Change checks with the mismatch test moved before the tests on pw.     *)
ChangeErrorMismatchFirst(cur, pw, pw2, stored) ==
  IF cur # stored THEN "wrong"
  ELSE IF pw # pw2 THEN "mismatch"
  ELSE IF pw = "" THEN "empty"
  ELSE IF Len(pw) < MinPwLen THEN "short"
  ELSE "ok"

(* Change checks without the length test.                                 *)
ChangeErrorNoLen(cur, pw, pw2, stored) ==
  IF cur # stored THEN "wrong"
  ELSE IF pw = "" THEN "empty"
  ELSE IF pw # pw2 THEN "mismatch"
  ELSE "ok"

(* The checks of the /change-password branch, in the order of the code.   *)
ChangeError(cur, pw, pw2, stored) ==
  IF cur # stored THEN "wrong"
  ELSE IF pw = "" THEN "empty"
  ELSE IF Len(pw) < MinPwLen THEN "short"
  ELSE IF pw # pw2 THEN "mismatch"
  ELSE "ok"

(* A login without the "_password and" guard.                             *)
LoginOkUnguarded(pw, stored) == pw = stored

(* A login that accepts every password once a credential exists.          *)
LoginOkAny(pw, stored) == stored # ""

(* "_password and compare_digest(p("pw"), _password)"                     *)
LoginOk(pw, stored) == stored # "" /\ pw = stored

(* Handlers under way that will call _new_session.                        *)
Minting == {j \in Slots : ~Idle(j) /\ loc[j].kind \in {"setup", "login"}}

do_POST(i) ==
  /\ Accept(i)
  /\ \/ (* /setup *)
        IF ~Unconfigured(password)
        THEN Finish(i, Response("setup", "/setup", NoToken, 302, "/"))
        ELSE \E pw \in Passwords, pw2 \in Passwords :
               IF SetupError(pw, pw2) # "ok"
               THEN Finish(i, [Response("setup", "/setup", NoToken, 302, "/setup")
                                 EXCEPT !.err = SetupError(pw, pw2),
                                        !.pw = pw, !.pw2 = pw2])
               ELSE /\ minted + Cardinality(Minting) < MaxTokens
                    /\ Goto(i, "sp_set", [NoLoc EXCEPT !.kind = "setup", !.pw = pw])
     \/ (* /login *)
        \E pw \in Passwords :
          IF LoginOk(pw, password)
          THEN /\ minted + Cardinality(Minting) < MaxTokens
               /\ Goto(i, "ns_put", [NoLoc EXCEPT !.kind = "login", !.pw = pw])
          ELSE Finish(i, [Response("login", "/login", NoToken, 302, "/login")
                            EXCEPT !.err = "wrong", !.pw = pw])
     \/ (* every other path: the auth gate *)
        \E tok \in Cookies :
          Goto(i, "vs_get", [NoLoc EXCEPT !.kind = "post", !.tok = tok])
  /\ UNCHANGED <<password, sessions, disk, now, minted, ticks, boots,
                 revoked, purged, reaped, boot, issued, fails, checked, acting, cookieEnd, origin>>

ActionNames == {"volume_up", "unknown_name"}
_ACTIONS == {"volume_up"}

(* A lookup that finds a function for every name.                         *)
KnownAny(name) == TRUE

(* "fn = _ACTIONS.get(name); if fn"                                       *)
Known(name) == name \in _ACTIONS

(* The authenticated POST routes.                                         *)
gated(i) ==
  /\ At(i, "gated")
  /\ \/ \E cur \in Passwords, pw \in Passwords, pw2 \in Passwords :
          IF ChangeError(cur, pw, pw2, password) # "ok"
          THEN /\ acting' = acting
               /\ Finish(i, [Response("post", "/change-password", loc[i].tok, 302,
                                      "/change-password")
                               EXCEPT !.err = ChangeError(cur, pw, pw2, password),
                                      !.authed = loc[i].authed,
                                      !.cur = cur, !.pw = pw, !.pw2 = pw2])
          ELSE /\ acting' = acting
               /\ Goto(i, "cp_get", [loc[i] EXCEPT !.pw = pw, !.old = cur])
     \/ \E name \in ActionNames :
          IF Known(name)
          THEN /\ acting' = acting + 1
               /\ Finish(i, [Response("post", "/action", loc[i].tok, 200, "")
                               EXCEPT !.authed = loc[i].authed, !.effect = "action",
                                      !.name = name])
          ELSE /\ acting' = acting
               /\ Finish(i, [Response("post", "/action", loc[i].tok, 400, "")
                               EXCEPT !.authed = loc[i].authed, !.err = "unknown action",
                                      !.name = name])
     \/ /\ acting' = acting
        /\ Finish(i, [Response("post", "/nosuch", loc[i].tok, 404, "")
                        EXCEPT !.authed = loc[i].authed])
  /\ UNCHANGED <<password, sessions, disk, now, minted, reqs, ticks, boots,
                 revoked, purged, reaped, boot, issued, fails, checked, cookieEnd, origin>>

(* tok = _get_cookie(...); cur_exp = _sessions.get(tok)                   *)
cp_get(i) ==
  /\ At(i, "cp_get")
  /\ Goto(i, "cp_clear", [loc[i] EXCEPT !.exp = Get(sessions, loc[i].tok, None)])
  /\ UNCHANGED <<password, sessions, disk, now, minted, reqs, ticks, boots,
                 revoked, purged, reaped, boot, issued, fails, checked, acting, cookieEnd, origin>>

(* _sessions.clear()                                                      *)
cp_clear(i) ==
  /\ At(i, "cp_clear")
  /\ sessions' = EmptyMap
  /\ revoked' = revoked \cup (DOMAIN sessions \ {loc[i].tok})
  /\ Goto(i, "cp_put", [loc[i] EXCEPT !.victims = DOMAIN sessions \ {loc[i].tok}])
  /\ UNCHANGED <<password, disk, now, minted, reqs, ticks, boots, purged, reaped, boot, issued, fails, checked, acting, cookieEnd, origin>>

(* if cur_exp: _sessions[tok] = cur_exp                                   *)
cp_put(i) ==
  /\ At(i, "cp_put")
  /\ sessions' = IF loc[i].exp # None
                 THEN Put(sessions, loc[i].tok, loc[i].exp)
                 ELSE sessions
  /\ Goto(i, "sp_set", [loc[i] EXCEPT !.exp = None])
  /\ UNCHANGED <<password, disk, now, minted, reqs, ticks, boots,
                 revoked, purged, reaped, boot, issued, fails, checked, acting, cookieEnd, origin>>

(* ------------------------------ the process --------------------------- *)

(* The process ends and a new one runs _setup_auth on settings file f.    *)
StartupOn(cause, d, f) ==
  /\ boots < MaxBoots
  /\ boots' = boots + 1
  /\ now' = now + d
  /\ ticks' = IF d > 0 THEN ticks + 1 ELSE ticks
  /\ disk' = f
  /\ password' = SetupPassword(f)
  /\ sessions' = SetupSessions(f, now')
  /\ pc' = [i \in Slots |-> "idle"]
  /\ loc' = [i \in Slots |-> NoLoc]
  /\ out' = NoResp
  /\ revoked' = {}
  /\ purged' = {}
  /\ reaped' = {}
  /\ boot' = [cause |-> cause, file |-> f.st,
              inSave |-> \E i \in Slots : pc[i] \in {"sp_write", "sv_write"},
              up |-> ~LoadRaises(f),
              pw |-> SetupPassword(f),
              chg |-> {[old |-> loc[i].old, victims |-> loc[i].victims] : i \in
                         {j \in Slots : loc[j].kind = "post" /\ loc[j].victims # {}}},
              before |-> {t \in DOMAIN sessions : sessions[t] > now},
              after |-> {t \in DOMAIN sessions' : sessions'[t] > now'}]
  /\ checked' = EmptyMap
  /\ acting' = 0
  /\ origin' = DOMAIN sessions'
  /\ UNCHANGED <<minted, issued, fails, cookieEnd>>

(* The new process finds the file as the old one left it.                 *)
Startup(cause, d) == StartupOn(cause, d, disk) /\ reqs' = reqs

(* A stop with no request in flight, then a start.                        *)
Restart == AllIdle /\ Startup("clean", 0)

(* The process is killed while a handler runs, and started again, at once *)
(* or after some time.                                                    *)
Crash ==
  /\ ~AllIdle
  /\ \E d \in {0} \cup (IF ticks < MaxTicks THEN TickSteps ELSE {}) :
       Startup("crash", d)

(* "--set-password <new>": a run of the program that calls               *)
(* _save_password(argv) on the settings file and exits, with no check on  *)
(* the argument; its own _password global dies with it.  The reset is run *)
(* while the service is stopped (the settings file is not meant for       *)
(* access by two processes at once), and the service is then started.     *)
SetPasswordCLI ==
  /\ AllIdle
  /\ reqs < MaxReqs
  /\ reqs' = reqs + 1
  /\ \E pw \in Passwords :
       StartupOn("cli", 0, FileOk(PasswordBlob(disk, pw)))

(* The action an /action request started returns.  Nothing makes it       *)
(* return: it may run for ever.  daemon=True lets the process exit while  *)
(* it runs.                                                               *)
ActionEnds ==
  /\ acting > 0
  /\ acting' = acting - 1
  /\ out' = NoResp
  /\ UNCHANGED <<password, sessions, disk, now, minted, pc, loc, reqs, ticks,
                 boots, revoked, purged, reaped, boot, issued, fails, checked, cookieEnd, origin>>

Handler(i) ==
  \/ do_GET(i) \/ do_POST(i)
  \/ vs_get(i) \/ vs_check(i) \/ vs_time(i) \/ vs_store(i)
  \/ lo_pop(i) \/ gated(i)
  \/ cp_get(i) \/ cp_clear(i) \/ cp_put(i)
  \/ sp_set(i) \/ sp_load(i) \/ sp_open(i) \/ sp_write(i) \/ sp_fail(i)
  \/ ns_put(i)
  \/ sv_load(i) \/ sv_snap(i) \/ sv_open(i) \/ sv_write(i) \/ sv_fail(i)

Next ==
  Tick \/ Restart \/ Crash \/ SetPasswordCLI \/ ActionEnds
    \/ \E i \in Slots : Handler(i)

Spec == Init /\ [][Next]_vars

(* ====================================================================== *)
(*                               Claims                                   *)
(* ====================================================================== *)

(* The step just taken was taken by the handler in slot i.                *)
StepOf(i) == pc'[i] # pc[i] /\ boots' = boots

(* The response of the auth gate to an unauthenticated request.           *)
IsUnauthorized(r) == (r.code = 302 /\ r.to = "/login" /\ r.kind = "get") \/ r.code = 401

(* Positions inside the change-password branch, which only the auth gate  *)
(* of _do_post leads to.                                                  *)
ChangePcs == {"gated", "cp_get", "cp_clear", "cp_put"}
SavePcs == {"sp_set", "sp_load", "sp_open", "sp_write",
            "sv_load", "sv_snap", "sv_open", "sv_write"}

(* C1: on a gated route (GET /, /status, /change-password, POST           *)
(* /change-password, /action) the gated logic runs (a page is served, an  *)
(* action dispatched, the credential changed) only for a request whose    *)
(* cookie token was a key of the session table and was not expired when   *)
(* the request was authorized.                                            *)
C1_GatedOnlyIfAuthorized ==
  /\ out.effect # "none" => out.authed
  /\ \A i \in Slots :
       (pc[i] \in ChangePcs \/ (pc[i] \in SavePcs /\ loc[i].kind = "post"))
         => loc[i].authed

C1_Witness == out.effect = "password" /\ out.authed

(* C2: once a logout or another session's password change has removed     *)
(* token t, t is never again a key of the in-memory table and no later    *)
(* Validate(t) returns true, whatever the interleaving of the handlers.   *)
C2_NoResurrection ==
  \A t \in revoked : t \notin DOMAIN sessions /\ ~Validate(t)

(* C3: after a password change made from session A has completed, every   *)
(* Validate of a token that the change removed (every session but A's)    *)
(* returns false.  (The part of the claim about B; the part about A's own *)
(* token is not the one that fails.)                                      *)
C3_OthersInvalidAfterChange == \A t \in purged : ~Validate(t)

(* C4: when Validate(t) succeeds, the in-memory expiry of t right after   *)
(* the call is now + TTL, now being the time the call read.               *)
C4_SlideIsNowPlusTTL ==
  [][\A i \in Slots :
       /\ (pc[i] = "vs_time" /\ StepOf(i)) => loc'[i].t = now
       /\ (pc[i] = "vs_store" /\ StepOf(i)) =>
            /\ loc[i].tok \in DOMAIN sessions'
            /\ sessions'[loc[i].tok] = loc[i].t + SESSION_TTL]_vars

C4_Witness ==
  /\ out.effect = "page"
  /\ now > 0
  /\ out.tok \in DOMAIN sessions
  /\ sessions[out.tok] = now + SESSION_TTL

(* C5: for a token within its TTL and not revoked, every Validate call,   *)
(* sequential or concurrent, returns true, and the token's in-memory      *)
(* expiry never decreases from one state to the next.                     *)
C5_ValidateIdempotent ==
  [][/\ \A i \in Slots :
          (pc[i] \in {"vs_get", "vs_check"} /\ StepOf(i) /\ pc'[i] = "idle")
            => ~(Validate(loc[i].tok) /\ loc[i].tok \notin revoked)
     /\ boots' = boots =>
          \A t \in (DOMAIN sessions) \cap (DOMAIN sessions') :
            sessions'[t] >= sessions[t]]_vars

(* C6: Validate(t) returns false when t is not a key of the table or when *)
(* now is past the expiry it read; in the expired case the call removes t *)
(* from the table, and the next save writes a sessions map without t.     *)
C6_ExpiredIsReaped ==
  [][\A i \in Slots :
       /\ (pc[i] = "vs_get" /\ StepOf(i) /\ loc[i].tok \notin DOMAIN sessions)
            => IsUnauthorized(out')
       /\ (pc[i] = "vs_check" /\ StepOf(i) /\ now > loc[i].exp)
            => IsUnauthorized(out') /\ loc[i].tok \notin DOMAIN sessions'
       /\ (pc[i] = "sv_snap" /\ StepOf(i))
            => \A t \in reaped : t \notin DOMAIN loc'[i].s["sessions"]]_vars

(* C7: sessions survive a clean restart: a token that is in the table and *)
(* inside its TTL right before the stop (no request in flight) is in the  *)
(* table and inside its TTL right after the start, at the same time now;  *)
(* in particular one whose expiry was slid forward by use.  (Stated for   *)
(* now strictly before the expiry; the instant now = expiry is left out.) *)
C7_SessionsSurviveRestart ==
  boot.cause = "clean" => boot.before \subseteq boot.after

(* C8: whenever no handler is in progress, the persisted sessions map and *)
(* the in-memory table hold the same non-expired entries with the same    *)
(* expiries, also after a successful Validate has slid an expiry.         *)
C8_DiskMirrorsMemory ==
  AllIdle =>
    LiveAt(Get(_load_settings(disk), "sessions", EmptyMap), now)
      = LiveAt(sessions, now)

(* C9: a crash during a save leaves a settings file that the next load    *)
(* reads as a complete blob, never an empty or truncated one.             *)
C9_SaveAtomic ==
  (boot.cause = "crash" /\ boot.inSave) => boot.file = "ok"

(* C10: when the settings file is missing or cannot be parsed, start-up   *)
(* raises nothing and goes on with the credential unset and an empty      *)
(* session table.                                                         *)
SoftStart == boot.up /\ password = "" /\ sessions = EmptyMap

Persisted == Get(_load_settings(disk), "sessions", EmptyMap)

(* What _valid_session(tok) would return on table m at time t.            *)
ValidIn(m, tok, t) ==
  LET exp == Get(m, tok, None) IN ~Absent(exp) /\ ~Expired(exp, t)

(* C11: from the Unconfigured state, an accepted POST /setup stores the   *)
(* credential in memory and in the settings file, creates a session and   *)
(* returns its token in the cookie, and that cookie validates at once, so *)
(* that a following GET / is served: when the handler responds, the       *)
(* credential is set, the file holds the same credential, and the token   *)
(* of the cookie (unless a password change revoked it meanwhile) is a key *)
(* of the table and validates while inside its TTL.                       *)
C11_SetupConfigures ==
  [][\A i \in Slots :
       (pc[i] = "sv_write" /\ StepOf(i) /\ loc[i].kind = "setup") =>
         /\ password' # ""
         /\ LoadedPassword(disk') = password'
         /\ out'.cookie = loc[i].tok
         /\ loc[i].tok \notin revoked =>
              /\ loc[i].tok \in DOMAIN sessions'
              /\ now < sessions'[loc[i].tok] => ValidIn(sessions', loc[i].tok, now')]_vars

(* What the claim calls a rejected setup submission.                      *)
BadSetup(pw, pw2) == pw = "" \/ pw # pw2 \/ Len(pw) < MinPwLen

(* C12: from the Unconfigured state, a POST /setup with an empty          *)
(* password, with pw different from pw2 or with a password shorter than 4 *)
(* is rejected: it is answered with an error and no cookie, it leaves the *)
(* credential unset, the session table and the settings file as they      *)
(* were, and mints no token; only a submission that is none of these goes *)
(* on to store a credential; pw = pw2 = "ab" is answered with error short.*)
C12_RejectedSetupChangesNothing ==
  [][\A i \in Slots : (Idle(i) /\ StepOf(i) /\ password = "") =>
       /\ out'.kind = "setup" =>
            /\ BadSetup(out'.pw, out'.pw2)
            /\ out'.err \in {"empty", "mismatch", "short"}
            /\ out'.cookie = NoToken
            /\ (out'.pw = "ab" /\ out'.pw2 = "ab") => out'.err = "short"
            /\ UNCHANGED <<password, sessions, disk, minted>>
       /\ loc'[i].kind = "setup" => ~BadSetup(loc'[i].pw, loc'[i].pw)]_vars

C12_Witness ==
  /\ out.kind = "setup" /\ out.pw = "ab" /\ out.pw2 = "ab" /\ out.err = "short"
  /\ password = "" /\ sessions = EmptyMap /\ disk.st = "missing"

(* C13: a POST /setup never replaces a credential that is already set,    *)
(* also when several POST /setup requests run at the same time: the       *)
(* handler of a setup submission assigns _password only while it is unset.*)
C13_SetupOnlyOnce ==
  [][\A i \in Slots :
       (pc[i] = "sp_set" /\ StepOf(i) /\ loc[i].kind = "setup")
         => password = ""]_vars

(* C14: in the Configured state, a POST /login whose password differs     *)
(* from the credential is answered with a redirect to /login?error=wrong  *)
(* and no cookie, and leaves the session table, the token counter and the *)
(* settings file unchanged; only a submission equal to the credential     *)
(* goes on to create a session.                                           *)
C14_WrongLoginChangesNothing ==
  [][\A i \in Slots : (Idle(i) /\ StepOf(i) /\ password # "") =>
       /\ (out'.kind = "login" /\ out'.pw # password) =>
            /\ out'.code = 302 /\ out'.to = "/login" /\ out'.err = "wrong"
            /\ out'.cookie = NoToken
            /\ UNCHANGED <<password, sessions, disk, minted>>
       /\ loc'[i].kind = "login" => loc'[i].pw = password]_vars

C14_Witness ==
  /\ out.kind = "login" /\ out.err = "wrong" /\ out.pw = "wxyz"
  /\ password = "abcd" /\ sessions # EmptyMap

C16_LogoutRemovesToken ==
  [][\A i \in Slots :
       (pc[i] = "sv_write" /\ StepOf(i) /\ loc[i].kind = "logout"
          /\ loc[i].tok # NoToken) =>
         /\ out'.clear
         /\ loc[i].tok \notin DOMAIN sessions'
         /\ loc[i].tok \notin DOMAIN Persisted']_vars

(* C17 as stated: while the credential is unset every GET whose path is   *)
(* not /setup is answered with a redirect to /setup.                      *)
C17_AllGetsRedirected ==
  (password = "" /\ out.kind = "get" /\ out.path # "/setup")
    => (out.code = 302 /\ out.to = "/setup")

(* C17, amended: while the credential is unset every GET whose path is    *)
(* neither /setup nor a public static asset (icons, manifest) is answered *)
(* with a redirect to /setup, and no gated content is served.             *)
C17_GetsRedirectedButAssets ==
  /\ (password = "" /\ out.kind = "get" /\ out.path \notin {"/setup"} \cup PublicPaths)
       => (out.code = 302 /\ out.to = "/setup" /\ out.effect = "none")
  /\ password = "" => \A i \in Slots : loc[i].kind # "get"

C17_Witness ==
  password = "" /\ out.kind = "get" /\ out.path = "/" /\ out.to = "/setup"

(* C18: a POST /action from an authenticated session whose action name is *)
(* not in the action table is answered with status 400 and an error, and  *)
(* no action is dispatched.                                               *)
C18_UnknownActionRejected ==
  (out.kind = "post" /\ out.path = "/action" /\ out.authed
     /\ out.name \notin _ACTIONS)
    => (out.code = 400 /\ out.err # "" /\ out.effect = "none")

C18_Witness ==
  out.path = "/action" /\ out.name = "unknown_name" /\ out.code = 400 /\ out.authed

(* C19: in every reachable state the credential is unset or has at least  *)
(* 4 characters, also right after a start that follows a command-line     *)
(* credential reset.                                                      *)
C19_CredentialWellFormed == password = "" \/ Len(password) >= MinPwLen

(* C20: in the Configured state a request without a valid session gets a  *)
(* structured unauthorized error with a 4xx status on an API-style route  *)
(* (POST /action, GET /status) and a redirect to the login view on a      *)
(* browser-facing route (GET /, GET or POST /change-password).            *)
C20_UnauthorizedByRouteKind ==
  (password # "" /\ IsUnauthorized(out)) =>
    /\ (out.path = "/action" \/ (out.kind = "get" /\ out.path = "/status"))
         => out.code \in 400 .. 499
    /\ (out.path = "/change-password" \/ (out.kind = "get" /\ out.path = "/"))
         => (out.code = 302 /\ out.to = "/login")

(* C21: a handler whose write of the settings file fails still completes  *)
(* with its normal response: no setup, login, logout or password change   *)
(* is answered with status 500 or left without an answer.                 *)
C21_WriteFailureSurvived == out.code # 500 /\ out.err # "dropped"

(* C22: every write of the settings file, by the session save or by the   *)
(* credential save, stores a sessions map whose tokens are keys of the    *)
(* in-memory table at the time of the write with an in-memory expiry      *)
(* later than now.                                                        *)
C22_WritesOnlyLiveSessions ==
  [][\A i \in Slots :
       (pc[i] \in {"sp_write", "sv_write"} /\ StepOf(i)) =>
         \A t \in DOMAIN Persisted' :
           t \in DOMAIN sessions /\ sessions[t] > now]_vars

(* The response of a setup or password change that went through: the     *)
(* handler has saved the credential and then the session table.           *)
CredentialSaved(r) ==
  /\ r.code = 302
  /\ \/ (r.kind = "setup" /\ r.cookie # NoToken)
     \/ (r.kind = "post" /\ r.effect = "password")

(* C23: no lost update of the credential: when a setup or password change *)
(* has responded and all handlers have finished (and no write has         *)
(* failed), the credential in the settings file is the in-memory          *)
(* credential, whatever other requests saved the session table meanwhile. *)
C23_NoLostCredential ==
  (AllIdle /\ fails = 0 /\ CredentialSaved(out)) =>
    LoadedPassword(disk) = password

(* C24: when two logins of this process have each created a token, the    *)
(* tokens are distinct (they are two keys of checked), and once all       *)
(* handlers have finished (and no write has failed) each of the two,      *)
(* unless revoked since, is a key of the in-memory table and, while       *)
(* inside its TTL, of the persisted sessions map.                         *)
C24_LoginsAllPersisted ==
  (AllIdle /\ fails = 0 /\ Cardinality(DOMAIN checked) >= 2) =>
    \A t \in (DOMAIN checked) \ revoked :
      /\ t \in DOMAIN sessions
      /\ sessions[t] > now => t \in DOMAIN Persisted

(* A password change is under way in slot j (from the purge to the        *)
(* response).                                                             *)
Changing(j) == loc[j].kind = "post" /\ pc[j] \in (ChangePcs \ {"gated"}) \cup SavePcs

(* C25: once a password change has completed, the table holds no valid    *)
(* session, other than the changer's, created by a login whose password   *)
(* check was made against the previous credential: none is there when the *)
(* change responds, and no login that was checked against a credential    *)
(* that has since been replaced creates one afterwards.                   *)
C25_NoSessionFromOldCredential ==
  [][\A i \in Slots :
       /\ (pc[i] = "sv_write" /\ StepOf(i) /\ loc[i].kind = "post"
             /\ loc[i].old # password') =>
            \A t \in (DOMAIN sessions') \ {loc[i].tok} :
              (t \in DOMAIN checked /\ checked[t] = loc[i].old)
                => ~ValidIn(sessions', t, now')
       /\ (pc[i] = "ns_put" /\ StepOf(i) /\ loc[i].kind = "login"
             /\ fails = 0 /\ \A j \in Slots : ~Changing(j)) =>
            loc[i].pw = password]_vars

(* C26: while a password change issued from session A is in progress, a   *)
(* request that carries A's token never finds the token missing from the  *)
(* session table (A's token being one the change found in the table, and  *)
(* not logged out meanwhile).                                             *)
C26_ChangerStaysAuthenticated ==
  [][\A i \in Slots, j \in Slots :
       (/\ pc[i] = "vs_get" /\ StepOf(i)
        /\ Changing(j) /\ loc[j].tok = loc[i].tok
        /\ (pc[j] = "cp_put" => loc[j].exp # None)
        /\ loc[i].tok \notin revoked
        /\ loc[i].tok \notin reaped)
         => loc[i].tok \in DOMAIN sessions]_vars

(* C27: after a crash during a password change and the restart, the       *)
(* credential that was in force before the change is loaded, or no        *)
(* session that existed before the change, other than the changer's, is   *)
(* loaded: another credential never comes with such a session.            *)
C27_CrashInChangeIsAllOrNothing ==
  boot.cause = "crash" =>
    \A c \in boot.chg : boot.pw # c.old => boot.after \cap c.victims = {}

(* C28: the purge of a password change made with token t takes the expiry *)
(* t has just before the table is cleared and leaves the table with       *)
(* exactly one entry, t with that expiry, if t was in the table, and      *)
(* empty otherwise.                                                       *)
C28_RevokeAllExcept ==
  [][\A i \in Slots :
       /\ (pc[i] = "cp_clear" /\ StepOf(i)) =>
            loc[i].exp = Get(sessions, loc[i].tok, None)
       /\ (pc[i] = "cp_put" /\ StepOf(i)) =>
            sessions' = IF loc[i].exp # None
                        THEN Put(EmptyMap, loc[i].tok, loc[i].exp)
                        ELSE EmptyMap]_vars

(* The outcome of a change submission in the order the claim gives.       *)
ClaimedOutcome(cur, pw, pw2, stored) ==
  IF cur # stored THEN "wrong"
  ELSE IF pw # pw2 THEN "mismatch"
  ELSE IF pw = "" THEN "empty"
  ELSE IF Len(pw) < MinPwLen THEN "short"
  ELSE "ok"

(* A rejected change submission is the response just sent.                *)
ChangeRejected ==
  out.kind = "post" /\ out.path = "/change-password" /\ out.code = 302
    /\ out.err \in {"wrong", "empty", "short", "mismatch"}

(* C29 as stated: wrong current password first, then mismatch, then       *)
(* empty, then short.                                                     *)
C29_ErrorsInClaimedOrder ==
  ChangeRejected => out.err = ClaimedOutcome(out.cur, out.pw, out.pw2, password)

(* C29, amended: a current password that does not match gives error=wrong *)
(* whatever the other fields are; otherwise an empty new password gives   *)
(* error=empty; otherwise one shorter than 4 characters gives             *)
(* error=short; otherwise a confirmation that differs gives               *)
(* error=mismatch; the change goes ahead only when none applies.          *)
C29_ErrorsInCodeOrder ==
  [][\A i \in Slots : (pc[i] = "gated" /\ StepOf(i)) =>
       /\ out'.path = "/change-password" =>
            /\ out'.cur # password => out'.err = "wrong"
            /\ (out'.cur = password /\ out'.pw = "") => out'.err = "empty"
            /\ (out'.cur = password /\ out'.pw # "" /\ Len(out'.pw) < MinPwLen)
                 => out'.err = "short"
            /\ (out'.cur = password /\ Len(out'.pw) >= MinPwLen)
                 => (out'.err = "mismatch" /\ out'.pw # out'.pw2)
       /\ pc'[i] = "cp_get" =>
            (loc'[i].old = password /\ Len(loc'[i].pw) >= MinPwLen)]_vars

C29_Witness ==
  /\ ChangeRejected /\ out.cur = password /\ out.pw = "ab" /\ out.pw2 = "abcd"
  /\ out.err = "short"

(* C30: a POST /change-password with a wrong current password, a          *)
(* mismatch, or an empty or too-short new password is rejected, and the   *)
(* rejection leaves the credential, the session table and the settings    *)
(* file as they were and revokes no session; only a submission with none  *)
(* of these defects goes on to the purge.                                 *)
C30_RejectedChangeChangesNothing ==
  [][\A i \in Slots : (pc[i] = "gated" /\ StepOf(i)) =>
       /\ (out'.path = "/change-password" /\ out'.err # "") =>
            /\ (out'.cur # password \/ out'.pw # out'.pw2
                  \/ Len(out'.pw) < MinPwLen)
            /\ UNCHANGED <<password, sessions, disk, revoked, minted>>
       /\ pc'[i] = "cp_get" =>
            /\ loc'[i].old = password
            /\ Len(loc'[i].pw) >= MinPwLen]_vars

C30_Witness ==
  /\ ChangeRejected /\ out.err = "wrong" /\ out.authed
  /\ Cardinality(DOMAIN sessions) = 2 /\ LoadedPassword(disk) = password

(* C31: a GET /logout whose cookie token does not validate (absent,       *)
(* unknown or expired) leaves the in-memory session table as it is, and   *)
(* one that carries no token writes to the settings file nothing but what *)
(* the file already holds.                                                *)
C31_LogoutNeedsValidToken ==
  [][\A i \in Slots :
       /\ (pc[i] = "lo_pop" /\ StepOf(i) /\ ~Validate(loc[i].tok)) =>
            sessions' = sessions
       /\ (pc[i] = "sv_snap" /\ StepOf(i) /\ loc[i].kind = "logout"
             /\ loc[i].tok = NoToken) =>
            loc'[i].s = _load_settings(disk)]_vars

(* C32: while the credential is unset, no step of a POST handler other    *)
(* than setup changes the credential or dispatches an action, whatever    *)
(* cookie the request carries: POST /change-password and POST /action     *)
(* have no effect.                                                        *)
C32_NoEffectWhileUnconfigured ==
  [][\A i \in Slots :
       (StepOf(i) /\ Unconfigured(password) /\ loc[i].kind \in {"post", "login"}) =>
         /\ password' = password
         /\ out'.effect \notin {"action", "password"}]_vars
(* C33: while the credential is unset, a POST /login is rejected whatever *)
(* password it submits, the empty string included: it is answered with    *)
(* error=wrong and no cookie, creates no session and no token, and no     *)
(* login handler goes on to _new_session; a login that does create a      *)
(* session runs with a credential set and a non-empty password.           *)
C33_NoLoginWhileUnconfigured ==
  [][\A i \in Slots :
       /\ (pc[i] = "idle" /\ StepOf(i) /\ Unconfigured(password)) =>
            /\ loc'[i].kind # "login"
            /\ out'.kind = "login" =>
                 /\ out'.err = "wrong" /\ out'.cookie = NoToken
                 /\ sessions' = sessions /\ minted' = minted
       /\ (pc[i] = "ns_put" /\ StepOf(i) /\ loc[i].kind = "login") =>
            (~Unconfigured(password) /\ loc[i].pw # "")]_vars

C33_Witness ==
  /\ Unconfigured(password)
  /\ out.kind = "login" /\ out.err = "wrong" /\ out.pw = ""
  /\ sessions # EmptyMap

C35_CookieOutlivesSession ==
  \A t \in DOMAIN cookieEnd :
    (t \notin revoked /\ ValidIn(sessions, t, now)) => now <= cookieEnd[t]

(* C36: in every reachable state, the state a startup load produces       *)
(* included, an unset credential means an empty session table.            *)
C36_NoSessionWithoutCredential ==
  Unconfigured(password) => sessions = EmptyMap

(* C37: Validate, the save filter and the load filter agree on when a     *)
(* session is expired: at no time does Validate accept a token of the     *)
(* table that a save or a load at the same time drops.                    *)
C37_FiltersAgree ==
  \A t \in DOMAIN sessions :
    (~Absent(sessions[t]) /\ ~Expired(sessions[t], now)) =>
      /\ t \in DOMAIN SessionsBlob(EmptyMap, sessions, now).sessions
      /\ t \in DOMAIN _load_sessions_from_disk(FileOk(Blob("", sessions)), now)

(* C38: Configured is absorbing: while the process runs, no step of a     *)
(* request handler takes a set in-memory credential back to the empty     *)
(* one.                                                                   *)
C38_ConfiguredIsAbsorbing ==
  [][(~Unconfigured(password) /\ boots' = boots) => ~Unconfigured(password')]_vars

C38_Witness ==
  /\ CredentialSaved(out) /\ out.kind = "post"
  /\ boot.pw = "abcd" /\ password = "wxyz"

(* C39: every key of the in-memory session table is a token this process  *)
(* loaded from the settings file at startup or that _new_session minted   *)
(* after an accepted setup or login; a cookie value that is neither (the  *)
(* empty one included) is never a key.                                    *)
C39_KeysAreMintedOrLoaded ==
  /\ DOMAIN sessions \subseteq origin
  /\ NoToken \notin DOMAIN sessions
  /\ \A i \in Slots : pc[i] \in {"vs_check", "vs_time", "vs_store", "gated"} =>
       loc[i].tok \in origin

C39_Witness ==
  /\ out.tok \in issued \ origin
  /\ IsUnauthorized(out)
  /\ sessions # EmptyMap

=============================================================================
